---- MODULE Spec2Model ----
(***************************************************************************)
(* A model of src/solver.py: Solver.solve and Solver.propagate, with the   *)
(* grid codec (to_dictionary, to_numpy_array) and the two validators.      *)
(*                                                                         *)
(* A numpy array is a record [shape, flat]: its shape and its entries in   *)
(* row-major order (what numpy_array.flatten() yields).  The dictionary of *)
(* candidate strings is a function from cell keys to sets of digits: the   *)
(* key 'rc' is the pair <<r, c>>, a string of digit characters is the set  *)
(* of its characters and len() is Cardinality.  The order of the           *)
(* characters of a candidate string is the iteration order of a Python     *)
(* set of one-character strings, which depends on the hash seed of the     *)
(* run; the only place that order is read (the for loop of the guess       *)
(* step) is a nondeterministic choice here.                                *)
(***************************************************************************)
EXTENDS Integers, Sequences, FiniteSets, TLC

\* ------------------------------------------------------------------------
\* Bounds of the input family
\* ------------------------------------------------------------------------
MaxBlank == 2

MaxEntry == 10

MaxPasses == 83

\* ------------------------------------------------------------------------
\* Solver.__init__
\* ------------------------------------------------------------------------
digits == 1..9

NoDict == <<>>

NoArray == [shape |-> <<>>, flat |-> <<>>]

no_solution == [shape |-> <<9, 9>>, flat |-> [i \in 1..81 |-> -1]]

cells == [i \in 1..81 |-> <<((i - 1) \div 9) + 1, ((i - 1) % 9) + 1>>]

Keys == {cells[i] : i \in 1..81}

rows == {{<<r, y>> : y \in digits} : r \in digits}

columns == {{<<x, c>> : x \in digits} : c \in digits}

subgrids == {{<<x, y>> : x \in r, y \in c} : r \in {1..3, 4..6, 7..9}, c \in {1..3, 4..6, 7..9}}

permutations == [c \in Keys |-> {p \in rows \cup columns \cup subgrids : c \in p}]

neighbours == [c \in Keys |-> (UNION permutations[c]) \ {c}]

\* ------------------------------------------------------------------------
\* Helpers: len() of a candidate string, indexing of an array
\* ------------------------------------------------------------------------
len(value) == Cardinality(value)

At(a, i, j) == a.flat[9 * i + j + 1]

\* ------------------------------------------------------------------------
\* The grid codec
\* ------------------------------------------------------------------------
\* str(value) of an entry 0..9 is a one-character string.
str(value) == {value}

\* int(value) of a one-character string.
int(value) == CHOOSE d \in value : TRUE

to_dictionary(numpy_array, empty_cell) ==
    [key \in Keys |->
        LET i == CHOOSE n \in 1..81 : cells[n] = key
            str_value == str(numpy_array.flat[i])
        IN  IF str_value = empty_cell THEN digits ELSE str_value]

\* to_numpy_array laying the values out column by column.
to_numpy_array_transposed(dictionary) ==
    [shape |-> <<9, 9>>,
     flat |-> [i \in 1..81 |-> int(dictionary[<<((i - 1) % 9) + 1, ((i - 1) \div 9) + 1>>])]]

to_numpy_array(dictionary) ==
    [shape |-> <<9, 9>>, flat |-> [i \in 1..81 |-> int(dictionary[cells[i]])]]

\* ------------------------------------------------------------------------
\* The validators
\* ------------------------------------------------------------------------
\* is_valid_puzzle without the test for entries above 9.
is_valid_puzzle_no_upper(sudoku) ==
    IF sudoku.shape # <<9, 9>>
    THEN FALSE
    ELSE \A i \in 0..8 : \A j \in 0..8 : ~(At(sudoku, i, j) < 0)

is_valid_puzzle(sudoku) ==
    IF sudoku.shape # <<9, 9>>
    THEN FALSE
    ELSE \A i \in 0..8 : \A j \in 0..8 :
            ~(At(sudoku, i, j) < 0 \/ At(sudoku, i, j) > 9)

\* np.sum(sudoku, axis=0)[j]: the sum of column j.
column_sum(sudoku, j) ==
    LET partial[i \in 0..9] ==
            IF i = 0 THEN 0 ELSE partial[i - 1] + At(sudoku, i - 1, j)
    IN  partial[9]

is_valid_solution(sudoku) ==
    LET partial[j \in 0..9] ==
            IF j = 0 THEN 0 ELSE partial[j - 1] + column_sum(sudoku, j - 1)
    IN  partial[9] = 9 * 45

\* ------------------------------------------------------------------------
\* propagate: one elimination pass (the for loop of lines 91-96), applied
\* to the cells in dictionary order; a cell changed early in the pass is
\* seen with its new value by the cells after it.
\* ------------------------------------------------------------------------
solved_count(sudoku) == Cardinality({c \in Keys : len(sudoku[c]) = 1})

\* A pass that does not leave solved cells alone.
skip_cell_never(value) == FALSE

skip_cell(value) == len(value) = 1

solved_neighbours(sudoku, key) ==
    UNION {sudoku[k] : k \in {n \in neighbours[key] : len(sudoku[n]) = 1}}

\* Lines 92-96 for one cell of the for loop.
eliminate_cell(sudoku, key) ==
    IF ~skip_cell(sudoku[key])
    THEN [sudoku EXCEPT ![key] = sudoku[key] \ solved_neighbours(sudoku, key)]
    ELSE sudoku

\* The for loop over the cells of one row of the grid, in dictionary order.
eliminate_row(sudoku, r) ==
    LET after[j \in 0..9] ==
            IF j = 0
            THEN sudoku
            ELSE CHOOSE next \in {eliminate_cell(before, cells[9 * (r - 1) + j]) :
                                     before \in {after[j - 1]}} : TRUE
    IN  after[9]

\* The whole for loop: the 81 cells in dictionary order, row after row;
\* after[r] is the dictionary once the cells of the first r rows are done.
eliminate(sudoku) ==
    LET after[r \in 0..9] ==
            IF r = 0
            THEN sudoku
            ELSE CHOOSE next \in {eliminate_row(before, r) : before \in {after[r - 1]}} : TRUE
    IN  after[9]

\* The exit test of the loop with the comparison inverted.
loop_exit_inverted(prev_solved, now_solved) == prev_solved # now_solved

loop_exit(prev_solved, now_solved) == prev_solved = now_solved

has_empty_cell(sudoku) == Cardinality({c \in Keys : len(sudoku[c]) = 0}) # 0

all_solved(sudoku) == \A key \in Keys : len(sudoku[key]) = 1

\* min((len(value), key) ...): fewest candidates, ties by the key string.
KeyLess(a, b) == a[1] < b[1] \/ (a[1] = b[1] /\ a[2] < b[2])

unsolved(sudoku) == {key \in Keys : len(sudoku[key]) > 1}

min_key(sudoku) ==
    CHOOSE k \in unsolved(sudoku) :
        \A o \in unsolved(sudoku) \ {k} :
            len(sudoku[k]) < len(sudoku[o])
            \/ (len(sudoku[k]) = len(sudoku[o]) /\ KeyLess(k, o))

\* ------------------------------------------------------------------------
\* The input family: the grids handed to solve by its caller
\* ------------------------------------------------------------------------
\* A valid, completely filled grid.
Base == [i \in 1..81 |->
            LET r == (i - 1) \div 9
                c == (i - 1) % 9
            IN  ((3 * (r % 3) + (r \div 3) + c) % 9) + 1]

\* Cells that the family may blank, override or swap (indices in 1..81).
BlankPool == {1, 2, 5, 11, 41, 81}

OverridePool == {2, 10, 81}

SwapPairs == {<<1, 2>>, <<1, 81>>}

\* Blanking these cells of Base leaves a grid with exactly one completion
\* on which elimination alone stalls.
StallBlanks == {3, 7, 8, 9, 19, 20, 21, 55, 61, 65, 66, 70, 73, 80, 81}

\* Two 5s in the first row, the rest empty.
TwoFives == [i \in 1..81 |-> IF i \in {1, 2} THEN 5 ELSE 0]

\* The first cell sees 1..8 in its row and 9 in its column.
NoCandidate == [i \in 1..81 |-> IF i \in 2..9 THEN i - 1 ELSE IF i = 10 THEN 9 ELSE 0]

AllOnes == [i \in 1..81 |-> 1]

Shapes == {<<9, 9>>, <<8, 9>>, <<9, 8>>, <<81>>, <<9, 9, 1>>}

RECURSIVE Product(_)
Product(shape) == IF shape = <<>> THEN 1 ELSE Head(shape) * Product(Tail(shape))

Variant(blanks, swap, override) ==
    [i \in 1..81 |->
        IF override # <<>> /\ override[1] = i THEN override[2]
        ELSE IF i \in blanks THEN 0
        ELSE IF swap # <<>> /\ swap[1] = i THEN Base[swap[2]]
        ELSE IF swap # <<>> /\ swap[2] = i THEN Base[swap[1]]
        ELSE Base[i]]

Grids ==
    {Variant(b \cup s, w, o) :
        b \in {x \in SUBSET BlankPool : Cardinality(x) <= MaxBlank},
        s \in {{}, StallBlanks},
        w \in {<<>>} \cup SwapPairs,
        o \in {<<>>} \cup (OverridePool \X ((-1)..MaxEntry))}
    \cup {TwoFives, NoCandidate, AllOnes}

Inputs ==
    {[shape |-> <<9, 9>>, flat |-> g] : g \in Grids}
    \cup {[shape |-> sh, flat |-> SubSeq(Base, 1, Product(sh))] : sh \in Shapes}

\* A smaller family for the checks of behaviours under fairness.
LiveGrids ==
    {Variant(b \cup s, <<>>, o) :
        b \in {x \in SUBSET BlankPool : Cardinality(x) <= MaxBlank},
        s \in {{}, StallBlanks},
        o \in {<<>>, <<2, 1>>, <<2, MaxEntry>>}}
    \cup {TwoFives, NoCandidate, AllOnes}

LiveInputs ==
    {[shape |-> <<9, 9>>, flat |-> g] : g \in LiveGrids}
    \cup {[shape |-> <<9, 8>>, flat |-> SubSeq(Base, 1, 72)]}

\* ------------------------------------------------------------------------
\* State
\* ------------------------------------------------------------------------
VARIABLES
    input,           \* the array passed to solve by the caller
    pc,              \* the statement the solve is at
    sudoku,          \* the dictionary propagate works on, NoDict before decoding
    passes,          \* iterations of the while loop started by this propagate
    returned,        \* what propagate returned: "none", "False" or "dict"
    next_state,      \* the copy handed to the nested solve, NoDict if none
    depth,           \* nested calls of solve below the caller's
    solution_array,  \* the encoded solution, NoArray before encoding
    result,          \* the array solve returned, NoArray if none (yet)
    raised,          \* the exception that left solve, "none" if none
    round            \* 1 for the caller's grid, 2 when the result is solved again

vars == <<input, pc, sudoku, passes, returned, next_state, depth,
          solution_array, result, raised, round>>

Init ==
    /\ input \in Inputs
    /\ pc = "solve"
    /\ sudoku = NoDict
    /\ passes = 0
    /\ returned = "none"
    /\ next_state = NoDict
    /\ depth = 0
    /\ solution_array = NoArray
    /\ result = NoArray
    /\ raised = "none"
    /\ round = 1

\* solve, lines 128-129: reject a malformed grid.
solve_validate ==
    /\ pc = "solve"
    /\ IF ~is_valid_puzzle(input)
       THEN /\ result' = no_solution
            /\ pc' = "done"
       ELSE /\ pc' = "decode"
            /\ UNCHANGED result
    /\ UNCHANGED <<input, sudoku, passes, returned, next_state, depth,
                   solution_array, raised, round>>

\* solve, line 131: decode the grid and enter propagate.
solve_decode ==
    /\ pc = "decode"
    /\ sudoku' = to_dictionary(input, str(0))
    /\ pc' = "loop"
    /\ UNCHANGED <<input, passes, returned, next_state, depth,
                   solution_array, result, raised, round>>

\* propagate, lines 87-104: one iteration of the while loop.
propagate_pass ==
    /\ pc = "loop"
    /\ passes < MaxPasses
    /\ \E prev_solved \in {solved_count(sudoku)} : \E after \in {eliminate(sudoku)} :
           /\ sudoku' = after
           /\ passes' = passes + 1
           /\ IF loop_exit(prev_solved, solved_count(after))
              THEN /\ pc' = "after_loop"
                   /\ UNCHANGED returned
              ELSE IF has_empty_cell(after)
              THEN /\ pc' = "returned"
                   /\ returned' = "False"
              ELSE /\ pc' = "loop"
                   /\ UNCHANGED returned
    /\ UNCHANGED <<input, next_state, depth, solution_array, result, raised, round>>

\* propagate, lines 107-108: return the dictionary if every cell is solved.
propagate_solved ==
    /\ pc = "after_loop"
    /\ IF all_solved(sudoku)
       THEN /\ pc' = "returned"
            /\ returned' = "dict"
       ELSE /\ pc' = "guess"
            /\ UNCHANGED returned
    /\ UNCHANGED <<input, sudoku, passes, next_state, depth,
                   solution_array, result, raised, round>>

\* propagate, lines 111-118: pick the cell with the fewest candidates, copy
\* the state with one of its digits and call solve on the copy.  min() of
\* an empty sequence raises ValueError.
propagate_guess ==
    /\ pc = "guess"
    /\ IF unsolved(sudoku) = {}
       THEN /\ raised' = "ValueError"
            /\ pc' = "done"
            /\ UNCHANGED <<next_state, depth>>
       ELSE /\ \E digit \in sudoku[min_key(sudoku)] :
                 next_state' = [sudoku EXCEPT ![min_key(sudoku)] = str(digit)]
            /\ depth' = depth + 1
            /\ pc' = "nested_solve"
            /\ UNCHANGED raised
    /\ UNCHANGED <<input, sudoku, passes, returned, solution_array, result, round>>

\* solve called with a dictionary, lines 118, 128 and 63: a dict has no
\* attribute shape; the AttributeError is caught nowhere and leaves every
\* frame up to the caller of solve.  The nested call therefore never
\* returns, and lines 120-121 and the implicit return of None after the for
\* loop are never reached.
nested_solve ==
    /\ pc = "nested_solve"
    /\ raised' = "AttributeError"
    /\ depth' = 0
    /\ pc' = "done"
    /\ UNCHANGED <<input, sudoku, passes, returned, next_state,
                   solution_array, result, round>>

\* solve, lines 132-133: propagate came back.
solve_result ==
    /\ pc = "returned"
    /\ IF returned = "False"
       THEN /\ result' = no_solution
            /\ pc' = "done"
       ELSE /\ pc' = "encode"
            /\ UNCHANGED result
    /\ UNCHANGED <<input, sudoku, passes, returned, next_state, depth,
                   solution_array, raised, round>>

\* solve, line 135: encode the solved dictionary.
solve_encode ==
    /\ pc = "encode"
    /\ solution_array' = to_numpy_array(sudoku)
    /\ pc' = "check"
    /\ UNCHANGED <<input, sudoku, passes, returned, next_state, depth,
                   result, raised, round>>

\* solve, lines 136-139: the sum check decides what is returned.
solve_check ==
    /\ pc = "check"
    /\ IF ~is_valid_solution(solution_array)
       THEN result' = no_solution
       ELSE result' = solution_array
    /\ pc' = "done"
    /\ UNCHANGED <<input, sudoku, passes, returned, next_state, depth,
                   solution_array, raised, round>>

\* The caller hands a returned solution to solve once more.
solve_again ==
    /\ pc = "done"
    /\ round = 1
    /\ raised = "none"
    /\ result # no_solution
    /\ input' = result
    /\ round' = 2
    /\ pc' = "solve"
    /\ sudoku' = NoDict
    /\ passes' = 0
    /\ returned' = "none"
    /\ solution_array' = NoArray
    /\ result' = NoArray
    /\ UNCHANGED <<next_state, depth, raised>>

Next ==
    \/ solve_validate
    \/ solve_decode
    \/ propagate_pass
    \/ propagate_solved
    \/ propagate_guess
    \/ nested_solve
    \/ solve_result
    \/ solve_encode
    \/ solve_check
    \/ solve_again

Spec == Init /\ [][Next]_vars

InitLive == Init /\ input \in LiveInputs

\* The interpreter runs a started solve on: no statement waits for anything.
LiveSpec == InitLive /\ [][Next]_vars /\ WF_vars(Next)

TypeOK ==
    /\ pc \in {"solve", "decode", "loop", "after_loop", "guess", "nested_solve",
               "returned", "encode", "check", "done"}
    /\ raised \in {"none", "ValueError", "AttributeError"}
    /\ returned \in {"none", "False", "dict"}
    /\ round \in 1..2

\* ------------------------------------------------------------------------
\* Vocabulary of the properties (independent of the solver's own checks)
\* ------------------------------------------------------------------------
Idx(key) == 9 * (key[1] - 1) + key[2]

IsDict(d) == DOMAIN d = Keys

Units == rows \cup columns \cup subgrids

\* Every row, column and box of the grid holds each digit 1-9 exactly once.
IsSudokuSolution(flat) == \A p \in Units : \A d \in digits :
                             Cardinality({c \in p : flat[Idx(c)] = d}) = 1

\* A 9x9 array with entries in [0,9].
WellFormed(a) ==
    /\ a.shape = <<9, 9>>
    /\ \A n \in 1..81 : a.flat[n] >= 0 /\ a.flat[n] <= 9

Blanks(flat) == {n \in 1..81 : flat[n] = 0}

ClueConflict(flat) ==
    \E c \in Keys : \E k \in neighbours[c] :
        flat[Idx(c)] # 0 /\ flat[Idx(c)] = flat[Idx(k)]

\* All valid completions of a well-formed grid, by exhaustive search on the
\* first empty cell.
RECURSIVE Fill(_)
Fill(flat) ==
    IF Blanks(flat) = {}
    THEN IF IsSudokuSolution(flat) THEN {flat} ELSE {}
    ELSE LET n == CHOOSE m \in Blanks(flat) : \A o \in Blanks(flat) : m <= o
             used == {flat[Idx(k)] : k \in neighbours[cells[n]]}
         IN  UNION {Fill([flat EXCEPT ![n] = d]) : d \in digits \ used}

Completions(flat) == IF ClueConflict(flat) THEN {} ELSE Fill(flat)

Finished == pc = "done"

ReturnedSolution == Finished /\ raised = "none" /\ result # no_solution

ReturnedSentinel == Finished /\ raised = "none" /\ result = no_solution

\* ------------------------------------------------------------------------
\* The claims
\* ------------------------------------------------------------------------

\* C1: whenever solve returns a grid other than the all -1 sentinel for a
\* well-formed input, every row, column and 3x3 box of the returned grid
\* contains each digit 1-9 exactly once.
C1_ReturnedGridIsSolution ==
    (ReturnedSolution /\ WellFormed(input)) => IsSudokuSolution(result.flat)

\* C2: for a well-formed grid with exactly one valid completion, solve
\* returns exactly that completion, also when elimination stalls and the
\* guess step must run.
C2_UniqueCompletionReturned ==
    (Finished /\ WellFormed(input) /\ Cardinality(Completions(input.flat)) = 1)
        => (raised = "none" /\ result.flat \in Completions(input.flat))

\* C3: for a well-formed grid with no valid completion (in particular one
\* with the same clue twice in a row), solve returns the all -1 sentinel.
C3_NoCompletionGivesSentinel ==
    (Finished /\ WellFormed(input) /\ Completions(input.flat) = {})
        => ReturnedSentinel

\* C4: solve never ends in an exception: the only outcomes of a finished
\* solve are a returned grid of digits or the returned sentinel.
C4_NeverRaises ==
    Finished => (raised = "none" /\ (result = no_solution
                                      \/ \A n \in 1..81 : result.flat[n] \in digits))

\* C5: an input that is not 9x9 or has an entry outside [0,9] is answered
\* with the sentinel, and is neither decoded nor propagated.
C5_MalformedRejected ==
    ~WellFormed(input) =>
        /\ sudoku = NoDict
        /\ passes = 0
        /\ pc \in {"solve", "done"}
        /\ Finished => ReturnedSentinel

C5_Witness ==
    /\ ReturnedSentinel
    /\ input.shape = <<9, 9>>
    /\ \E n \in 1..81 : input.flat[n] > 9

\* C6: a completely filled valid grid is returned unchanged and the loop
\* removes no candidate from any of its cells; solving a returned solution
\* again returns it unchanged.
C6_Idempotent ==
    /\ (input.shape = <<9, 9>> /\ IsSudokuSolution(input.flat))
          => /\ IsDict(sudoku) => \A key \in Keys : sudoku[key] = {input.flat[Idx(key)]}
             /\ Finished => (raised = "none" /\ result = input)
    /\ (round = 2 /\ Finished) => (raised = "none" /\ result = input)

C6_Witness ==
    /\ round = 2
    /\ Finished
    /\ result = input
    /\ IsSudokuSolution(input.flat)
    /\ passes = 1

\* C7: once an elimination pass has left a cell without candidates,
\* propagate neither reaches its guess step nor returns the state as solved.
C7_EmptyCellFails ==
    (IsDict(sudoku) /\ has_empty_cell(sudoku))
        => (pc \notin {"guess", "nested_solve"} /\ returned # "dict"
            /\ (Finished => ReturnedSentinel))

\* C8: every solve of a grid finishes; in the loop the number of solved
\* cells never decreases and the loop goes on only after a pass that solved
\* a new cell, so there are at most 82 passes; a guess fixes one more cell
\* and the nesting depth stays within 81.
C8_Terminates ==
    /\ [](passes <= 82 /\ depth <= 81)
    /\ [][pc = "loop" =>
            /\ solved_count(sudoku') >= solved_count(sudoku)
            /\ pc' = "loop" => solved_count(sudoku') > solved_count(sudoku)]_vars
    /\ [][(pc = "guess" /\ pc' = "nested_solve") =>
            solved_count(next_state') = solved_count(sudoku) + 1]_vars
    /\ (pc = "solve") ~> Finished

C8_Witness ==
    /\ Finished
    /\ passes >= 2
    /\ IsDict(next_state)
    /\ solved_count(next_state) = solved_count(sudoku) + 1

\* C9: whenever propagate returns a fully solved state, the encoded grid
\* sums to 405, so solve never returns the sentinel because of the sum check.
C9_SumCheckNeverFails ==
    /\ pc = "check" => is_valid_solution(solution_array)
    /\ (Finished /\ returned = "dict") => result = solution_array

\* C10: a step of the search changes a cell only by removing digits and
\* never changes a solved cell; a returned solution agrees with the input
\* at every cell where the input is not 0.
C10_CluesPreserved ==
    /\ [][(IsDict(sudoku) /\ IsDict(sudoku')) =>
            \A key \in Keys :
                /\ sudoku'[key] \subseteq sudoku[key]
                /\ len(sudoku[key]) = 1 => sudoku'[key] = sudoku[key]]_vars
    /\ [](ReturnedSolution =>
            \A n \in 1..81 : input.flat[n] # 0 => result.flat[n] = input.flat[n])

C10_Witness ==
    /\ ReturnedSolution
    /\ round = 1
    /\ Blanks(input.flat) # {}
    /\ passes >= 2

====
